---- MODULE Spec2Model ----
(***************************************************************************)
(* Model of router.ts: the RouteTable (set / find) and the Router request  *)
(* lifecycle (handle, setRoute, setRouteNotFoundHandler,                   *)
(* setRouteUnhandledExceptionHandler and the three built-in handlers),     *)
(* together with the Lambda adapter of the example entry point.            *)
(*                                                                         *)
(* JavaScript values are modelled as follows.  An optional value is a      *)
(* sequence of length 0 (undefined) or 1.  A string produced by            *)
(* JSON.stringify, and any other body text, is a sequence of               *)
(* <<key, value>> pairs.  A handler is identified by its name.             *)
(***************************************************************************)
EXTENDS Integers, Sequences, FiniteSets, TLC

VARIABLES routes, sets, routeNotFoundHandler, routeUnhandledExceptionHandler,
          pc, request, handler, response, calls, applied, result

vars == <<routes, sets, routeNotFoundHandler, routeUnhandledExceptionHandler,
          pc, request, handler, response, calls, applied, result>>

routerVars == <<routeNotFoundHandler, routeUnhandledExceptionHandler,
                pc, request, handler, response, calls, applied, result>>

invocationVars == <<pc, request, handler, response, calls, applied, result>>

(***************************************************************************)
(* Bounds and input sets                                                   *)
(***************************************************************************)
\* longest recorded sequence of RouteTable.set calls
MaxSets == 3

\* number of handle invocations that may be in flight together
NumInvocations == 1

Invocations == 1..NumInvocations

\* number of handle invocations in flight together once registration is over
NumConcurrent == 2

ServeInvocations == 1..NumConcurrent

\* every invocation the model keeps state for
Slots == Invocations \cup ServeInvocations

\* request paths; the empty string is a key like any other
Paths == {"", "/x"}

\* the wildcard method
HttpMethodAny == "ANY"

\* methods a route is registered under (a subset of HttpMethod)
HttpMethod == {"ANY", "GET", "POST"}

\* methods a request may carry (any string)
RequestMethods == {"ANY", "GET", "POST", "PUT"}

\* route handlers supplied by the application
RouteHandlers == {"h1", "h2"}

\* replacement not-found handlers supplied by the application
NotFoundHandlers == {"nf1"}

\* replacement unhandled-error handlers supplied by the application
UnhandledErrorHandlers == {"ue1"}

\* message texts of Error objects a handler may throw
Messages == {"boom"}

\* failure values that are not Error objects
FailureValues == {"secret"}

\* find's result when nothing matches
Null == "null"

(***************************************************************************)
(* Map<K, V>                                                               *)
(***************************************************************************)
EmptyMap == [k \in {} |-> k]

MapHas(m, k) == k \in DOMAIN m

MapGet(m, k) == m[k]

MapSet(m, k, v) == [x \in (DOMAIN m) \cup {k} |-> IF x = k THEN v ELSE m[x]]

(***************************************************************************)
(* class RouteTable: routes is Map<path, Map<method, handler>>             *)
(***************************************************************************)
\* set, except that an entry already present is kept
set_keepFirst(rt, path, method, h) ==
    LET pathMap == IF MapHas(rt, path) THEN rt ELSE MapSet(rt, path, EmptyMap)
        methodMap == MapGet(pathMap, path)
    IN  IF MapHas(methodMap, method) THEN pathMap
        ELSE MapSet(pathMap, path, MapSet(methodMap, method, h))

\* set, except that the path gets a fresh method map holding only the new entry
set_freshMethodMap(rt, path, method, h) ==
    MapSet(rt, path, MapSet(EmptyMap, method, h))

set(rt, path, method, h) ==
    LET pathMap == IF MapHas(rt, path) THEN rt ELSE MapSet(rt, path, EmptyMap)
        methodMap == MapGet(pathMap, path)
    IN  MapSet(pathMap, path, MapSet(methodMap, method, h))

\* find, except that the method's own entry is tried before the wildcard
find_methodFirst(rt, path, method) ==
    IF ~MapHas(rt, path) THEN Null
    ELSE LET methodMap == MapGet(rt, path)
         IN  IF MapHas(methodMap, method) THEN MapGet(methodMap, method)
             ELSE IF MapHas(methodMap, HttpMethodAny) THEN MapGet(methodMap, HttpMethodAny)
             ELSE Null

\* find, except that an unknown path falls back to the entries of path ""
find_fallbackPath(rt, path, method) ==
    LET key == IF MapHas(rt, path) THEN path ELSE ""
    IN  IF ~MapHas(rt, key) THEN Null
        ELSE LET methodMap == MapGet(rt, key)
             IN  IF MapHas(methodMap, HttpMethodAny) THEN MapGet(methodMap, HttpMethodAny)
                 ELSE IF ~MapHas(methodMap, method) THEN Null
                 ELSE MapGet(methodMap, method)

find(rt, path, method) ==
    IF ~MapHas(rt, path) THEN Null
    ELSE LET methodMap == MapGet(rt, path)
         IN  IF MapHas(methodMap, HttpMethodAny) THEN MapGet(methodMap, HttpMethodAny)
             ELSE IF ~MapHas(methodMap, method) THEN Null
             ELSE MapGet(methodMap, method)

\* RouteTable.set called directly on a table; sets records the calls made
RouteTableSet(path, method, h) ==
    /\ Len(sets) < MaxSets
    /\ routes' = set(routes, path, method, h)
    /\ sets' = Append(sets, [path |-> path, method |-> method, handler |-> h])
    /\ UNCHANGED routerVars

(***************************************************************************)
(* The Lambda adapter: events, the two transformers                        *)
(***************************************************************************)
\* paths and methods setRoute is called with
RouterPaths == {"/x"}

RouterMethods == {"ANY", "GET"}

\* methods of the events delivered to handle
EventMethods == {"GET", "POST"}

\* an API Gateway event; requestContext is optional
Event(path, method, hasContext) ==
    [path |-> path, httpMethod |-> method, headers |-> EmptyMap,
     queryStringParameters |-> EmptyMap, body |-> "", isBase64Encoded |-> FALSE,
     requestContext |-> IF hasContext
                        THEN <<[sourceIp |-> "10.0.0.1", requestId |-> "r1"]>>
                        ELSE <<>>]

Events == {Event(p, m, c) : p \in Paths, m \in EventMethods, c \in BOOLEAN}

\* an Error object (instanceof Error) with its message
ErrorObject(message) == [instanceofError |-> TRUE, text |-> message]

\* a thrown value that is not an Error object
FailureValue(v) == [instanceofError |-> FALSE, text |-> v]

\* the TypeError of reading a property of undefined
TypeErrorUndefined == ErrorObject("Cannot read properties of undefined")

\* requestContext.sourceIp throws when the event has no requestContext
requestTransformerThrows(event) == event.requestContext = <<>>

requestTransformer(event) ==
    [path |-> event.path, method |-> event.httpMethod, headers |-> event.headers,
     queryStringParameters |-> event.queryStringParameters, body |-> event.body,
     isBodyBase64 |-> event.isBase64Encoded,
     sourceIp |-> event.requestContext[1].sourceIp,
     requestId |-> event.requestContext[1].requestId]

\* response.statusCode throws when the handler resolved with undefined
responseTransformerThrows(value) == value = <<>>

responseTransformer(r) ==
    [statusCode |-> IF r.statusCode = <<>> \/ r.statusCode = <<0>> THEN 200
                    ELSE r.statusCode[1],
     headers |-> IF r.headers = <<>> THEN EmptyMap ELSE r.headers[1],
     body |-> IF r.body = <<>> THEN <<>> ELSE r.body[1],
     isBase64Encoded |-> IF r.isBodyBase64 = <<>> THEN FALSE ELSE r.isBodyBase64[1]]

(***************************************************************************)
(* The built-in handlers                                                   *)
(***************************************************************************)
StringValue(s) == [type |-> "string", text |-> s]

FunctionValue(name) == [type |-> "function", text |-> name]

Property(key, value) == [key |-> key, value |-> value]

RECURSIVE JSONstringify(_)
\* JSON.stringify of an object given as its sequence of properties:
\* a property whose value is a function is left out
JSONstringify(object) ==
    IF object = <<>> THEN <<>>
    ELSE LET p == Head(object)
         IN  IF p.value.type = "function" THEN JSONstringify(Tail(object))
             ELSE <<[key |-> p.key, value |-> p.value.text]>> \o JSONstringify(Tail(object))

ContentTypeJson == [k \in {"Content-Type"} |-> "application/json"]

\* routeNotFoundHandlerDefault, except that the body names the request id only
routeNotFoundHandlerDefault_requestIdOnly(req) ==
    [statusCode |-> <<404>>,
     headers |-> <<ContentTypeJson>>,
     body |-> <<JSONstringify(<<Property("requestId", StringValue(req.requestId)),
                                Property("time", FunctionValue("currentTimeISOString")),
                                Property("message", StringValue("404 Not Found"))>>)>>,
     isBodyBase64 |-> <<>>]

routeNotFoundHandlerDefault(req) ==
    [statusCode |-> <<404>>,
     headers |-> <<ContentTypeJson>>,
     body |-> <<JSONstringify(<<Property("path", StringValue(req.path)),
                                Property("method", StringValue(req.method)),
                                Property("requestId", StringValue(req.requestId)),
                                Property("time", FunctionValue("currentTimeISOString")),
                                Property("message", StringValue("404 Not Found"))>>)>>,
     isBodyBase64 |-> <<>>]

\* routeUnhandledErrorHandlerDefault, except that the detail is a fixed text
routeUnhandledErrorHandlerDefault_noDetail(req, error) ==
    [statusCode |-> <<500>>,
     headers |-> <<ContentTypeJson>>,
     body |-> <<JSONstringify(<<Property("path", StringValue(req.path)),
                                Property("method", StringValue(req.method)),
                                Property("time", FunctionValue("currentTimeISOString")),
                                Property("message", StringValue("500 Internal Server Error")),
                                Property("detail", StringValue("Unknown"))>>)>>,
     isBodyBase64 |-> <<>>]

routeUnhandledErrorHandlerDefault(req, error) ==
    [statusCode |-> <<500>>,
     headers |-> <<ContentTypeJson>>,
     body |-> <<JSONstringify(<<Property("path", StringValue(req.path)),
                                Property("method", StringValue(req.method)),
                                Property("time", FunctionValue("currentTimeISOString")),
                                Property("message", StringValue("500 Internal Server Error")),
                                Property("detail", StringValue(error.text))>>)>>,
     isBodyBase64 |-> <<>>]

routeUnhandledErrorUnknownHandler(req, error) ==
    [statusCode |-> <<500>>,
     headers |-> <<ContentTypeJson>>,
     body |-> <<JSONstringify(<<Property("path", StringValue(req.path)),
                                Property("method", StringValue(req.method)),
                                Property("time", FunctionValue("currentTimeISOString")),
                                Property("message", StringValue("500 Internal Server Error")),
                                Property("detail", StringValue("Unknown"))>>)>>,
     isBodyBase64 |-> <<>>]

(***************************************************************************)
(* Handlers supplied by the application, and how a called handler settles  *)
(***************************************************************************)
BuiltInHandlers == {"routeNotFoundHandlerDefault", "routeUnhandledErrorHandlerDefault",
                    "routeUnhandledErrorUnknownHandler"}

\* a plain text body
Text(s) == <<[key |-> "text", value |-> s]>>

\* the response an application handler resolves with: no headers given
ApplicationResponses(fn) ==
    { [statusCode |-> <<200>>, headers |-> <<>>, body |-> <<Text(fn)>>,
       isBodyBase64 |-> <<FALSE>>] }

Resolved(value) == [kind |-> "return", value |-> value, error |-> <<>>]

Rejected(error) == [kind |-> "throw", value |-> <<>>, error |-> <<error>>]

\* the ways the promise returned by a call fn(req) or fn(req, error) settles
Outcomes(fn, req, error) ==
    IF fn = "routeNotFoundHandlerDefault"
    THEN {Resolved(<<routeNotFoundHandlerDefault(req)>>)}
    ELSE IF fn = "routeUnhandledErrorHandlerDefault"
    THEN {Resolved(<<routeUnhandledErrorHandlerDefault(req, error[1])>>)}
    ELSE IF fn = "routeUnhandledErrorUnknownHandler"
    THEN {Resolved(<<routeUnhandledErrorUnknownHandler(req, error[1])>>)}
    ELSE {Resolved(<<r>>) : r \in ApplicationResponses(fn)}
         \cup {Resolved(<<>>)}
         \cup {Rejected(ErrorObject(m)) : m \in Messages}
         \cup {Rejected(FailureValue(v)) : v \in FailureValues}

(***************************************************************************)
(* class Router                                                            *)
(***************************************************************************)
\* the result of a handle invocation as its caller sees it
Pending == [kind |-> "pending", value |-> <<>>, error |-> <<>>]

Returned(k) == [kind |-> "returned", value |-> <<k>>, error |-> <<>>]

Thrown(error) == [kind |-> "thrown", value |-> <<>>, error |-> <<error>>]

\* the lines of handle at which an invocation is suspended in an await
AwaitSites == {"L96", "L98", "L103", "L106", "L108", "L112"}

Call(site, fn, req, error) == [site |-> site, fn |-> fn, request |-> req, error |-> error]

Last(seq) == seq[Len(seq)]

Init ==
    /\ routes = EmptyMap
    /\ sets = <<>>
    /\ routeNotFoundHandler = "routeNotFoundHandlerDefault"
    /\ routeUnhandledExceptionHandler = "routeUnhandledErrorHandlerDefault"
    /\ pc = [i \in Slots |-> "idle"]
    /\ request = [i \in Slots |-> <<>>]
    /\ handler = [i \in Slots |-> Null]
    /\ response = [i \in Slots |-> <<>>]
    /\ calls = [i \in Slots |-> <<>>]
    /\ applied = [i \in Slots |-> 0]
    /\ result = [i \in Slots |-> Pending]

\* Invoke, except that the request is a field shared by the invocations, holding
\* the request of the highest-numbered invocation in flight
Invoke_sharedRequest(i, site, fn, error) ==
    LET j == CHOOSE j \in Slots :
                 request[j] # <<>> /\ \A k \in Slots : request[k] # <<>> => k <= j
    IN  /\ calls' = [calls EXCEPT ![i] = Append(@, Call(site, fn, request[j][1], error))]
        /\ pc' = [pc EXCEPT ![i] = site]
        /\ UNCHANGED <<request, handler, response, applied, result>>

\* handle calls fn at the given line and suspends awaiting its promise
Invoke(i, site, fn, error) ==
    /\ calls' = [calls EXCEPT ![i] = Append(@, Call(site, fn, request[i][1], error))]
    /\ pc' = [pc EXCEPT ![i] = site]
    /\ UNCHANGED <<request, handler, response, applied, result>>

\* a failure leaves handle: the promise handle returned is rejected
Escape(i, error) ==
    /\ pc' = [pc EXCEPT ![i] = "done"]
    /\ result' = [result EXCEPT ![i] = Thrown(error)]
    /\ UNCHANGED <<request, handler, response, calls, applied>>

\* Respond, except that the response is returned as the handler gave it
Respond_untransformed(i, value) ==
    /\ response' = [response EXCEPT ![i] = value]
    /\ result' = [result EXCEPT ![i] = [kind |-> "returned", value |-> value, error |-> <<>>]]
    /\ pc' = [pc EXCEPT ![i] = "done"]
    /\ UNCHANGED <<request, handler, calls, applied>>

\* line 115: the awaited value is assigned to response and transformed
Respond(i, value) ==
    /\ response' = [response EXCEPT ![i] = value]
    /\ applied' = [applied EXCEPT ![i] = @ + 1]
    /\ result' = [result EXCEPT ![i] =
                    IF responseTransformerThrows(value) THEN Thrown(TypeErrorUndefined)
                    ELSE Returned(responseTransformer(value[1]))]
    /\ pc' = [pc EXCEPT ![i] = "done"]
    /\ UNCHANGED <<request, handler, calls>>

\* Catch, except that a failure that is not an Error object is rethrown
Catch_errorsOnly(i, error) ==
    IF pc[i] \in {"L96", "L98"}
    THEN IF error.instanceofError
         THEN Invoke(i, "L103", "routeUnhandledErrorHandlerDefault", <<error>>)
         ELSE Escape(i, error)
    ELSE IF pc[i] = "L103"
    THEN IF error.instanceofError
         THEN Invoke(i, "L106", "routeUnhandledErrorHandlerDefault", <<error>>)
         ELSE Escape(i, error)
    ELSE Escape(i, error)

\* Catch, except that a failure that is not an Error object is handled as one
Catch_noTypeTest(i, error) ==
    IF pc[i] \in {"L96", "L98"}
    THEN Invoke(i, "L103", "routeUnhandledErrorHandlerDefault", <<error>>)
    ELSE IF pc[i] = "L103"
    THEN Invoke(i, "L106", "routeUnhandledErrorHandlerDefault", <<error>>)
    ELSE Escape(i, error)

\* Catch, except that the not-found handler is called outside the try
Catch_routeOnly(i, error) ==
    IF pc[i] = "L96" THEN Escape(i, error)
    ELSE IF pc[i] = "L98"
    THEN IF error.instanceofError
         THEN Invoke(i, "L103", "routeUnhandledErrorHandlerDefault", <<error>>)
         ELSE Invoke(i, "L112", "routeUnhandledErrorUnknownHandler", <<error>>)
    ELSE IF pc[i] = "L103"
    THEN IF error.instanceofError
         THEN Invoke(i, "L106", "routeUnhandledErrorHandlerDefault", <<error>>)
         ELSE Invoke(i, "L108", "routeUnhandledErrorUnknownHandler", <<error>>)
    ELSE Escape(i, error)

\* lines 100-114: where the failure of the awaited call goes
Catch(i, error) ==
    IF pc[i] \in {"L96", "L98"}
    THEN IF error.instanceofError
         THEN Invoke(i, "L103", "routeUnhandledErrorHandlerDefault", <<error>>)
         ELSE Invoke(i, "L112", "routeUnhandledErrorUnknownHandler", <<error>>)
    ELSE IF pc[i] = "L103"
    THEN IF error.instanceofError
         THEN Invoke(i, "L106", "routeUnhandledErrorHandlerDefault", <<error>>)
         ELSE Invoke(i, "L108", "routeUnhandledErrorUnknownHandler", <<error>>)
    ELSE Escape(i, error)

\* Dispatch, except that the built-in not-found handler is always the one called
Dispatch_defaultNotFound(i, req) ==
    LET h == find(routes, req.path, req.method)
    IN  /\ request' = [request EXCEPT ![i] = <<req>>]
        /\ handler' = [handler EXCEPT ![i] = h]
        /\ IF h = Null
           THEN /\ calls' = [calls EXCEPT ![i] =
                               <<Call("L96", "routeNotFoundHandlerDefault", req, <<>>)>>]
                /\ pc' = [pc EXCEPT ![i] = "L96"]
           ELSE /\ calls' = [calls EXCEPT ![i] = <<Call("L98", h, req, <<>>)>>]
                /\ pc' = [pc EXCEPT ![i] = "L98"]
        /\ UNCHANGED <<response, applied, result>>

\* Dispatch, except that the lookup prefers the method's own entry
Dispatch_methodFirst(i, req) ==
    LET h == find_methodFirst(routes, req.path, req.method)
    IN  /\ request' = [request EXCEPT ![i] = <<req>>]
        /\ handler' = [handler EXCEPT ![i] = h]
        /\ IF h = Null
           THEN /\ calls' = [calls EXCEPT ![i] =
                               <<Call("L96", routeNotFoundHandler, req, <<>>)>>]
                /\ pc' = [pc EXCEPT ![i] = "L96"]
           ELSE /\ calls' = [calls EXCEPT ![i] = <<Call("L98", h, req, <<>>)>>]
                /\ pc' = [pc EXCEPT ![i] = "L98"]
        /\ UNCHANGED <<response, applied, result>>

\* lines 92-99: look the handler up, call it or the not-found handler, suspend
Dispatch(i, req) ==
    LET h == find(routes, req.path, req.method)
    IN  /\ request' = [request EXCEPT ![i] = <<req>>]
        /\ handler' = [handler EXCEPT ![i] = h]
        /\ IF h = Null
           THEN /\ calls' = [calls EXCEPT ![i] =
                               <<Call("L96", routeNotFoundHandler, req, <<>>)>>]
                /\ pc' = [pc EXCEPT ![i] = "L96"]
           ELSE /\ calls' = [calls EXCEPT ![i] = <<Call("L98", h, req, <<>>)>>]
                /\ pc' = [pc EXCEPT ![i] = "L98"]
        /\ UNCHANGED <<response, applied, result>>

\* Handle, except that a request transformer failure is answered with a 500
Handle_transformerCaught(i, event) ==
    /\ pc[i] = "idle"
    /\ IF requestTransformerThrows(event)
       THEN Respond(i, <<[statusCode |-> <<500>>, headers |-> <<>>, body |-> <<>>,
                          isBodyBase64 |-> <<>>]>>)
       ELSE Dispatch(i, requestTransformer(event))
    /\ UNCHANGED <<routes, sets, routeNotFoundHandler, routeUnhandledExceptionHandler>>

\* handle(event) up to its first await
Handle(i, event) ==
    /\ pc[i] = "idle"
    /\ IF requestTransformerThrows(event)
       THEN Escape(i, TypeErrorUndefined)
       ELSE Dispatch(i, requestTransformer(event))
    /\ UNCHANGED <<routes, sets, routeNotFoundHandler, routeUnhandledExceptionHandler>>

\* Resume, except that the handler awaited at lines 96 and 98 is looked up
\* again when handle resumes
Resume_lateLookup(i) ==
    /\ pc[i] \in AwaitSites
    /\ LET req == request[i][1]
           h == find(routes, req.path, req.method)
           fn == IF pc[i] \notin {"L96", "L98"} THEN Last(calls[i]).fn
                 ELSE IF h = Null THEN routeNotFoundHandler ELSE h
       IN  \E o \in Outcomes(fn, Last(calls[i]).request, Last(calls[i]).error) :
              IF o.kind = "return" THEN Respond(i, o.value) ELSE Catch(i, o.error[1])
    /\ UNCHANGED <<routes, sets, routeNotFoundHandler, routeUnhandledExceptionHandler>>

\* handle resumes when the promise it awaits settles, with some outcome o
Resume(i) ==
    /\ pc[i] \in AwaitSites
    /\ \E o \in Outcomes(Last(calls[i]).fn, Last(calls[i]).request, Last(calls[i]).error) :
          IF o.kind = "return" THEN Respond(i, o.value) ELSE Catch(i, o.error[1])
    /\ UNCHANGED <<routes, sets, routeNotFoundHandler, routeUnhandledExceptionHandler>>

\* the caller of handle has taken its result; the next event may be handled
HandlerExit(i) ==
    /\ pc[i] = "done"
    /\ pc' = [pc EXCEPT ![i] = "idle"]
    /\ request' = [request EXCEPT ![i] = <<>>]
    /\ handler' = [handler EXCEPT ![i] = Null]
    /\ response' = [response EXCEPT ![i] = <<>>]
    /\ calls' = [calls EXCEPT ![i] = <<>>]
    /\ applied' = [applied EXCEPT ![i] = 0]
    /\ result' = [result EXCEPT ![i] = Pending]
    /\ UNCHANGED <<routes, sets, routeNotFoundHandler, routeUnhandledExceptionHandler>>

\* SetRoute, except that the table is started afresh with the new entry
SetRoute_replaceTable(path, method, h) ==
    /\ routes' = set(EmptyMap, path, method, h)
    /\ UNCHANGED <<sets, routeNotFoundHandler, routeUnhandledExceptionHandler>>
    /\ UNCHANGED invocationVars

SetRoute(path, method, h) ==
    /\ routes' = set(routes, path, method, h)
    /\ UNCHANGED <<sets, routeNotFoundHandler, routeUnhandledExceptionHandler>>
    /\ UNCHANGED invocationVars

SetRouteNotFoundHandler(h) ==
    /\ routeNotFoundHandler' = h
    /\ UNCHANGED <<routes, sets, routeUnhandledExceptionHandler>>
    /\ UNCHANGED invocationVars

SetRouteUnhandledExceptionHandler(h) ==
    /\ routeUnhandledExceptionHandler' = h
    /\ UNCHANGED <<routes, sets, routeNotFoundHandler>>
    /\ UNCHANGED invocationVars

(***************************************************************************)
(* Specifications                                                          *)
(***************************************************************************)
Next ==
    \/ \E p \in RouterPaths, m \in RouterMethods, h \in RouteHandlers : SetRoute(p, m, h)
    \/ \E h \in NotFoundHandlers : SetRouteNotFoundHandler(h)
    \/ \E h \in UnhandledErrorHandlers : SetRouteUnhandledExceptionHandler(h)
    \/ \E i \in Invocations, e \in Events : Handle(i, e)
    \/ \E i \in Invocations : Resume(i)
    \/ \E i \in Invocations : HandlerExit(i)

\* a Router in use
Spec == Init /\ [][Next]_vars

\* a Router in use whose called handlers all settle
FairSpec == Spec /\ \A i \in Invocations : WF_vars(Resume(i))

\* no handle invocation is in flight
Quiescent == \A i \in Slots : pc[i] = "idle"

ServeNext ==
    \/ \E p \in RouterPaths, m \in RouterMethods, h \in RouteHandlers :
          Quiescent /\ SetRoute(p, m, h)
    \/ \E h \in NotFoundHandlers : Quiescent /\ SetRouteNotFoundHandler(h)
    \/ \E h \in UnhandledErrorHandlers : Quiescent /\ SetRouteUnhandledExceptionHandler(h)
    \/ \E i \in ServeInvocations, e \in Events : Handle(i, e)
    \/ \E i \in ServeInvocations : Resume(i)
    \/ \E i \in ServeInvocations : HandlerExit(i)

\* a Router whose registration calls are made only while no handle is in flight
ServeSpec == Init /\ [][ServeNext]_vars

TableNext ==
    \E p \in Paths, m \in HttpMethod, h \in RouteHandlers : RouteTableSet(p, m, h)

\* a RouteTable on its own, with the history of the set calls made on it
TableSpec == Init /\ [][TableNext]_vars

(***************************************************************************)
(* Route table properties (checked under TableSpec)                        *)
(***************************************************************************)
\* the handler of the latest recorded set call for (path, method), if any
LastSet(path, method) ==
    LET idx == {k \in 1..Len(sets) : sets[k].path = path /\ sets[k].method = method}
    IN  IF idx = {} THEN Null
        ELSE sets[CHOOSE k \in idx : \A j \in idx : j <= k].handler

\* C1: once a handler has been registered for (path, 'ANY'), find(path, m)
\* returns the latest such wildcard handler for every incoming method m,
\* whether or not m has its own handler on that path and whichever of the
\* two was registered first.
WildcardTakesPrecedence ==
    \A p \in Paths, m \in RequestMethods :
        LastSet(p, HttpMethodAny) # Null => find(routes, p, m) = LastSet(p, HttpMethodAny)

\* C1 witness: a wildcard and a method-specific handler on one path, in both
\* orders of registration, the wildcard being what find returns for that method
WildcardBeforeAndAfterSpecific ==
    /\ Len(sets) = 3
    /\ sets[1].method = HttpMethodAny /\ sets[2].method = "GET" /\ sets[3].method = HttpMethodAny
    /\ sets[1].path = sets[2].path /\ sets[2].path = sets[3].path
    /\ sets[2].handler # sets[3].handler /\ sets[1].handler # sets[3].handler
    /\ find(routes, sets[1].path, "GET") = sets[3].handler
    /\ find(routes, sets[1].path, "PUT") = sets[3].handler

\* C2: with no wildcard on the path, find(p, m) returns the handler of the
\* latest set(p, m, _), whatever was registered for (p, m) before and whatever
\* other registrations came in between.
LastWriteWins ==
    \A p \in Paths, m \in HttpMethod :
        (LastSet(p, m) # Null /\ LastSet(p, HttpMethodAny) = Null)
            => find(routes, p, m) = LastSet(p, m)

\* C2 witness: (p, m) registered twice with different handlers, another
\* registration in between, no wildcard on p, and find gives the second
ReRegisteredWithOtherBetween ==
    /\ Len(sets) = 3
    /\ sets[1].path = sets[3].path /\ sets[1].method = sets[3].method
    /\ sets[1].handler # sets[3].handler
    /\ <<sets[2].path, sets[2].method>> # <<sets[1].path, sets[1].method>>
    /\ LastSet(sets[1].path, HttpMethodAny) = Null
    /\ find(routes, sets[1].path, sets[1].method) = sets[3].handler

\* C3: find returns Null exactly when neither the requested method nor the
\* wildcard was ever registered for exactly that path string; and a handler
\* it returns was registered under that very path.
AbsentExactlyWhenNothingMatches ==
    \A p \in Paths, m \in RequestMethods :
        /\ find(routes, p, m) = Null
              <=> (LastSet(p, m) = Null /\ LastSet(p, HttpMethodAny) = Null)
        /\ find(routes, p, m) # Null
              => \E k \in 1..Len(sets) :
                    /\ sets[k].path = p
                    /\ sets[k].method \in {m, HttpMethodAny}
                    /\ sets[k].handler = find(routes, p, m)

\* C3 witness: only the empty path is registered, for GET only: the other
\* path is absent, another method on the empty path is absent, GET is found
OnlyEmptyPathGetRegistered ==
    /\ sets # <<>>
    /\ \A k \in 1..Len(sets) : sets[k].path = "" /\ sets[k].method = "GET"
    /\ find(routes, "", "GET") # Null
    /\ find(routes, "", "POST") = Null
    /\ \A m \in RequestMethods : find(routes, "/x", m) = Null

(***************************************************************************)
(* Request lifecycle properties                                            *)
(***************************************************************************)
\* the body text has the property key with the given value
BodyHas(body, key, value) == \E k \in 1..Len(body) : body[k] = [key |-> key, value |-> value]

\* C4: in one invocation the response transformer is applied at most once;
\* an invocation whose request transformer succeeded ends having applied it
\* exactly once, whichever branch it took, and returns the transformer's
\* result when the transformer does not fail; an invocation suspended on a
\* handler that settles reaches that end.
HandleRespondsExactlyOnce ==
    /\ [](\A i \in Invocations :
            /\ applied[i] <= 1
            /\ (pc[i] = "done" /\ request[i] # <<>>)
                  => /\ applied[i] = 1
                     /\ ~responseTransformerThrows(response[i])
                           => result[i] = Returned(responseTransformer(response[i][1])))
    /\ \A i \in Invocations : (pc[i] \in AwaitSites) ~> (pc[i] = "done")

\* C4 witness: an invocation that went through the recognized-error branch
\* has ended with one application of the response transformer
RespondedAfterRecognizedError ==
    \E i \in Invocations :
        /\ pc[i] = "done" /\ applied[i] = 1 /\ result[i].kind = "returned"
        /\ Len(calls[i]) = 2 /\ calls[i][1].site = "L98" /\ calls[i][2].site = "L103"

\* C5: an invocation that called a route handler never ends without going
\* through the response transformer, and when the route handler failed
\* (there is a second call) handle returns the transformed response of a
\* fallback handler instead of throwing.
RouteHandlerFailureNeverEscapes ==
    \A i \in Invocations :
        (pc[i] = "done" /\ calls[i] # <<>> /\ calls[i][1].site = "L98")
            => /\ applied[i] = 1
               /\ Len(calls[i]) >= 2
                     => /\ response[i] # <<>>
                        /\ result[i] = Returned(responseTransformer(response[i][1]))

\* C5 witness: the route handler threw a value that is not an Error object
\* and handle has returned a response
ReturnedAfterNonErrorFailure ==
    \E i \in Invocations :
        /\ pc[i] = "done" /\ result[i].kind = "returned"
        /\ Len(calls[i]) = 2 /\ calls[i][1].site = "L98"
        /\ ~calls[i][2].error[1].instanceofError

\* C6: when the route handler fails with an Error object, the handler called
\* next is the unhandled-error handler installed on the Router at that moment,
\* with the original request and the error.
InstalledUnhandledErrorHandlerIsInvoked ==
    [][\A i \in Invocations :
          (pc[i] = "L98" /\ pc'[i] = "L103")
              => /\ Last(calls'[i]).fn = routeUnhandledExceptionHandler
                 /\ Last(calls'[i]).request = request[i][1]]_vars

\* C7: when find gives no handler for the request, the call handle makes is
\* to the not-found handler installed on the Router at that moment, with the
\* normalized request; and no route handler is called in that invocation.
InstalledNotFoundHandlerIsInvoked ==
    /\ [][\A i \in Invocations :
            (/\ pc[i] = "idle" /\ pc'[i] # "idle" /\ request'[i] # <<>>
             /\ find(routes, request'[i][1].path, request'[i][1].method) = Null)
                => calls'[i] = <<Call("L96", routeNotFoundHandler, request'[i][1], <<>>)>>]_vars
    /\ [](\A i \in Invocations :
            (calls[i] # <<>> /\ calls[i][1].site = "L96")
                => \A k \in 1..Len(calls[i]) :
                      calls[i][k].site # "L98" /\ calls[i][k].fn \notin RouteHandlers)

\* C7 witness: a replaced not-found handler is being awaited for a request
\* on a path that has a registration, but not for the request's method
ReplacedNotFoundHandlerCalled ==
    \E i \in Invocations :
        /\ pc[i] = "L96" /\ calls[i][1].fn \in NotFoundHandlers
        /\ MapHas(routes, request[i][1].path)
        /\ find(routes, request[i][1].path, request[i][1].method) = Null

\* C8: an invocation whose request matched nothing and which called the
\* built-in not-found handler returns status 404 with a body carrying the
\* path and the method of its own request.
DefaultNotFoundIs404WithPathAndMethod ==
    \A i \in Invocations :
        (/\ pc[i] = "done" /\ calls[i] # <<>>
         /\ calls[i][1].site = "L96" /\ calls[i][1].fn = "routeNotFoundHandlerDefault")
            => /\ result[i].kind = "returned"
               /\ result[i].value[1].statusCode = 404
               /\ BodyHas(result[i].value[1].body, "path", request[i][1].path)
               /\ BodyHas(result[i].value[1].body, "method", request[i][1].method)

\* C8 witness: a POST to a path registered for GET only was answered by the
\* built-in not-found handler
DefaultNotFoundAnswered ==
    \E i \in Invocations :
        /\ pc[i] = "done" /\ Len(calls[i]) = 1
        /\ calls[i][1].fn = "routeNotFoundHandlerDefault"
        /\ request[i][1].method = "POST" /\ MapHas(routes, request[i][1].path)
        /\ result[i].kind = "returned"

\* C9: an invocation whose route handler threw an Error object returns
\* status 500 with a body carrying that error's message and the path and
\* method of the request.
RecognizedErrorIs500WithMessage ==
    \A i \in Invocations :
        (/\ pc[i] = "done" /\ Len(calls[i]) >= 2 /\ calls[i][1].site = "L98"
         /\ calls[i][2].error[1].instanceofError)
            => /\ result[i].kind = "returned"
               /\ result[i].value[1].statusCode = 500
               /\ BodyHas(result[i].value[1].body, "detail", calls[i][2].error[1].text)
               /\ BodyHas(result[i].value[1].body, "path", request[i][1].path)
               /\ BodyHas(result[i].value[1].body, "method", request[i][1].method)

\* C9 witness: a route handler threw an Error object and handle has returned
RecognizedErrorAnswered ==
    \E i \in Invocations :
        /\ pc[i] = "done" /\ Len(calls[i]) = 2 /\ calls[i][1].site = "L98"
        /\ calls[i][2].error[1] \in {ErrorObject(m) : m \in Messages}
        /\ result[i].kind = "returned"

\* C10: when the route handler throws a value that is not an Error object,
\* the only further call is to the unknown-error handler (no unhandled-error
\* handler, built-in or installed, is called), and handle returns status 500
\* with detail 'Unknown' and a body in which the thrown value does not occur.
NonErrorFailureGoesToUnknownHandler ==
    \A i \in Invocations :
        (/\ Len(calls[i]) >= 2 /\ calls[i][1].site = "L98"
         /\ ~calls[i][2].error[1].instanceofError)
            => /\ Len(calls[i]) = 2
               /\ calls[i][2].site = "L112"
               /\ calls[i][2].fn = "routeUnhandledErrorUnknownHandler"
               /\ pc[i] = "done"
                     => /\ result[i].kind = "returned"
                        /\ result[i].value[1].statusCode = 500
                        /\ BodyHas(result[i].value[1].body, "detail", "Unknown")
                        /\ \A k \in 1..Len(result[i].value[1].body) :
                              result[i].value[1].body[k].value # calls[i][2].error[1].text

\* C10 witness: a route handler threw a plain value while a replacement
\* unhandled-error handler was installed, and handle has returned
NonErrorFailureAnswered ==
    \E i \in Invocations :
        /\ pc[i] = "done" /\ Len(calls[i]) = 2 /\ calls[i][1].site = "L98"
        /\ calls[i][2].error[1] \in {FailureValue(v) : v \in FailureValues}
        /\ routeUnhandledExceptionHandler \in UnhandledErrorHandlers
        /\ result[i].kind = "returned"

\* C11: the call handle makes for a request that matches is one call to the
\* handler find returns for the request's path and method, with the
\* normalized request; and when that call resolves with a response, handle
\* ends without any further call and returns the response transformer
\* applied to that very response.
MatchedHandlerResponseIsReturned ==
    /\ [][\A i \in Invocations :
            (pc[i] = "idle" /\ pc'[i] = "L98")
                => calls'[i] = <<Call("L98",
                                      find(routes, request'[i][1].path, request'[i][1].method),
                                      request'[i][1], <<>>)>>]_vars
    /\ [][\A i \in Invocations :
            (pc[i] = "L98" /\ pc'[i] = "done" /\ response'[i] # <<>>)
                => /\ calls'[i] = calls[i] /\ Len(calls[i]) = 1
                   /\ response'[i][1] \in ApplicationResponses(calls[i][1].fn)
                   /\ applied'[i] = 1
                   /\ result'[i] = Returned(responseTransformer(response'[i][1]))]_vars

\* C11 witness: a GET was answered with status 200 and the text of the
\* wildcard handler, which find prefers to the handler registered for GET
WildcardHandlerAnswered ==
    \E i \in Invocations :
        /\ pc[i] = "done" /\ Len(calls[i]) = 1 /\ calls[i][1].site = "L98"
        /\ request[i][1].method = "GET"
        /\ MapHas(routes, "/x") /\ DOMAIN routes["/x"] = {"ANY", "GET"}
        /\ routes["/x"]["ANY"] = "h2" /\ routes["/x"]["GET"] = "h1"
        /\ calls[i][1].fn = "h2"
        /\ result[i].kind = "returned"
        /\ result[i].value[1].statusCode = 200
        /\ result[i].value[1].body = Text("h2")

\* C12: an invocation whose request transformer failed (it has no request)
\* ends at once with that failure thrown to the caller, no handler called and
\* the response transformer not applied; and an invocation whose response
\* transformer failed ends with that failure thrown, the last call made
\* being the application handler whose value it was given, not a fallback.
TransformerFailuresPropagate ==
    /\ [][\A i \in Invocations :
            (pc[i] = "idle" /\ pc'[i] # "idle" /\ request'[i] = <<>>)
                => /\ pc'[i] = "done"
                   /\ result'[i] = Thrown(TypeErrorUndefined)
                   /\ calls'[i] = <<>>
                   /\ applied'[i] = 0]_vars
    /\ [](\A i \in Invocations :
            (pc[i] = "done" /\ applied[i] = 1 /\ responseTransformerThrows(response[i]))
                => /\ result[i] = Thrown(TypeErrorUndefined)
                   /\ Last(calls[i]).fn \notin BuiltInHandlers)

\* C12 witness: an invocation ended by the failure of the request transformer
RequestTransformerFailureThrown ==
    \E i \in Invocations :
        /\ pc[i] = "done" /\ request[i] = <<>> /\ calls[i] = <<>>
        /\ result[i].kind = "thrown"
        /\ MapHas(routes, "/x") /\ routeNotFoundHandler \in NotFoundHandlers

(***************************************************************************)
(* handle run on its own, as a function of the Router's state              *)
(***************************************************************************)
\* line 115 applied to the value the last awaited call resolved with
FinalResult(value) ==
    IF responseTransformerThrows(value) THEN Thrown(TypeErrorUndefined)
    ELSE Returned(responseTransformer(value[1]))

\* r is the result of handle once a call at line 106, 108 or 112 settled with o
EndsAfterLastCall(r, o) ==
    IF o.kind = "return" THEN r = FinalResult(o.value) ELSE r = Thrown(o.error[1])

\* r is a result of handle once the call at line 103 settled with o
EndsAfterErrorHandler(r, o, req) ==
    IF o.kind = "return" THEN r = FinalResult(o.value)
    ELSE LET fn == IF o.error[1].instanceofError
                   THEN "routeUnhandledErrorHandlerDefault"
                   ELSE "routeUnhandledErrorUnknownHandler"
         IN  \E o2 \in Outcomes(fn, req, o.error) : EndsAfterLastCall(r, o2)

\* r is a result of handle once the call at line 96 or 98 settled with o
EndsAfterDispatch(r, o, req) ==
    IF o.kind = "return" THEN r = FinalResult(o.value)
    ELSE IF o.error[1].instanceofError
    THEN \E o2 \in Outcomes("routeUnhandledErrorHandlerDefault", req, o.error) :
            EndsAfterErrorHandler(r, o2, req)
    ELSE \E o2 \in Outcomes("routeUnhandledErrorUnknownHandler", req, o.error) :
            EndsAfterLastCall(r, o2)

\* r is a result handle can give for req when nothing else runs, with route
\* table rt and not-found handler nf
handleAlone(r, rt, nf, req) ==
    LET h == find(rt, req.path, req.method)
        fn == IF h = Null THEN nf ELSE h
    IN  \E o \in Outcomes(fn, req, <<>>) : EndsAfterDispatch(r, o, req)

\* C13: with registration calls made only while nothing is in flight, every
\* invocation that ends, however its steps were interleaved with those of
\* the others, ends with a result handle gives for its request when run
\* alone; and no step of an invocation changes the route table or the two
\* fallback-handler fields.
ConcurrentInvocationsAreIndependent ==
    /\ [](\A i \in ServeInvocations :
            (pc[i] = "done" /\ request[i] # <<>>)
                => handleAlone(result[i], routes, routeNotFoundHandler, request[i][1]))
    /\ [][(\E i \in ServeInvocations : pc'[i] # pc[i])
              => UNCHANGED <<routes, routeNotFoundHandler,
                             routeUnhandledExceptionHandler>>]_vars

\* C13 witness: one invocation has ended through the error chain while
\* another, for a different request, is still awaiting its own error handler
TwoInvocationsInterleaved ==
    /\ pc[1] = "done" /\ Len(calls[1]) = 2 /\ result[1].kind = "returned"
    /\ pc[2] \in {"L103", "L112"}
    /\ request[1][1].path # request[2][1].path
    /\ request[1][1].method # request[2][1].method

RouteHandlerFailedWithError(i) ==
    /\ Len(calls[i]) >= 2
    /\ calls[i][1].site = "L98"
    /\ calls[i][2].error[1].instanceofError

\* C15: after a route handler failed with an Error object, the call made is
\* to the unhandled-error handler of the Router with the original request and
\* that error; when that call fails with an Error object in turn, the next
\* call is to the same handler with the original request and the secondary
\* error; and the handler is called at most twice in the invocation.
UnhandledErrorHandlerIsRetriedOnce ==
    \A i \in ServeInvocations :
        RouteHandlerFailedWithError(i)
            => LET req == request[i][1]
               IN  /\ calls[i][2] = Call("L103", routeUnhandledExceptionHandler, req,
                                         calls[i][2].error)
                   /\ (Len(calls[i]) >= 3 /\ calls[i][3].error[1].instanceofError)
                         => calls[i][3] = Call("L106", routeUnhandledExceptionHandler, req,
                                               calls[i][3].error)
                   /\ Len(calls[i]) <= 3

\* C16: after a route handler failed with an Error object, the call made is
\* to the unhandled-error handler of the Router; when that call fails with a
\* value that is not an Error object, the next call is to the unknown-error
\* handler, and its generic 500 response, transformed, is what handle returns.
UnhandledErrorHandlerFailureFallsToUnknownHandler ==
    \A i \in ServeInvocations :
        RouteHandlerFailedWithError(i)
            => LET req == request[i][1]
               IN  /\ calls[i][2].fn = routeUnhandledExceptionHandler
                   /\ (Len(calls[i]) >= 3 /\ ~calls[i][3].error[1].instanceofError)
                         => /\ calls[i][3] = Call("L108", "routeUnhandledErrorUnknownHandler",
                                                  req, calls[i][3].error)
                            /\ pc[i] = "done"
                                  => result[i] = Returned(responseTransformer(
                                        routeUnhandledErrorUnknownHandler(
                                            req, calls[i][3].error[1])))

\* C17: a set(p, m, h) call leaves find(p', m') as it was for every other
\* path p' and every method m'; and when m is not 'ANY' it leaves find(p, m')
\* as it was for every method m' other than m.
SetChangesOnlyWhatItNames ==
    [][sets' # sets
          => LET s == Last(sets')
             IN  /\ \A p \in Paths \ {s.path}, m \in RequestMethods :
                        find(routes', p, m) = find(routes, p, m)
                 /\ s.method # HttpMethodAny
                       => \A m \in RequestMethods \ {s.method} :
                             find(routes', s.path, m) = find(routes, s.path, m)]_vars

\* C17 witness: a method registered on a path that already had another
\* method, with another path registered too; both earlier answers are intact
SetBesideOtherMethodAndPath ==
    /\ Len(sets) = 3
    /\ sets[1].path = sets[3].path /\ sets[2].path # sets[3].path
    /\ sets[1].method = "GET" /\ sets[3].method = "POST"
    /\ sets[1].handler # sets[3].handler
    /\ find(routes, sets[1].path, "GET") = sets[1].handler
    /\ find(routes, sets[3].path, "POST") = sets[3].handler
    /\ find(routes, sets[2].path, sets[2].method) = sets[2].handler

\* C18: no operation of the Router removes a route: a (path, method) for
\* which find returns a handler has one after every step, and a path that
\* has a wildcard entry keeps having one.
RoutesAreNeverRemoved ==
    [][\A p \in Paths, m \in RequestMethods :
          /\ find(routes, p, m) # Null => find(routes', p, m) # Null
          /\ (MapHas(routes, p) /\ MapHas(MapGet(routes, p), HttpMethodAny))
                => (MapHas(routes', p) /\ MapHas(MapGet(routes', p), HttpMethodAny))]_vars

\* C18 witness: an invocation was answered by a wildcard handler that has
\* since been replaced by another, after the not-found handler was replaced
WildcardReplacedNotWithdrawn ==
    \E i \in Invocations :
        /\ pc[i] = "done" /\ request[i] # <<>> /\ request[i][1].method = "POST"
        /\ calls[i][1].site = "L98"
        /\ routeNotFoundHandler \in NotFoundHandlers
        /\ find(routes, request[i][1].path, "POST") \in RouteHandlers \ {calls[i][1].fn}

\* C19: the handler an invocation awaits is the one the table and the
\* not-found reference gave when it was dispatched; a setRoute or
\* setRouteNotFoundHandler step taken while it is suspended at line 96 or 98
\* leaves the awaited call as it was, and the response handle then returns is
\* one that the handler chosen at dispatch gave, whatever is registered by then.
HandlerIsChosenOnceAtDispatch ==
    /\ [][\A i \in Invocations :
            (pc[i] = "idle" /\ pc'[i] \in {"L96", "L98"})
                => LET req == request'[i][1]
                       h == find(routes, req.path, req.method)
                   IN  calls'[i] = <<Call(pc'[i], IF h = Null THEN routeNotFoundHandler ELSE h,
                                          req, <<>>)>>]_vars
    /\ [][\A i \in Invocations :
            (pc[i] \in {"L96", "L98"} /\ (routes' # routes \/ routeNotFoundHandler' # routeNotFoundHandler))
                => /\ pc'[i] = pc[i] /\ calls'[i] = calls[i]
                   /\ handler'[i] = handler[i] /\ result'[i] = Pending]_vars
    /\ [][\A i \in Invocations :
            (pc[i] \in {"L96", "L98"} /\ pc'[i] = "done" /\ result'[i].kind = "returned")
                => \E o \in Outcomes(calls[i][1].fn, request[i][1], <<>>) :
                      /\ o.kind = "return" /\ o.value # <<>>
                      /\ result'[i] = Returned(responseTransformer(o.value[1]))]_vars

\* C19 witness: an invocation is suspended awaiting the route handler it was
\* dispatched to while the table now gives another handler for its request
AwaitedHandlerNoLongerRegistered ==
    \E i \in Invocations :
        /\ pc[i] = "L98"
        /\ calls[i][1].fn \in RouteHandlers
        /\ find(routes, request[i][1].path, request[i][1].method)
              \in RouteHandlers \ {calls[i][1].fn}

====
